---------------------------- MODULE Spec2Model ----------------------------
(***************************************************************************)
(* Data Matcher: the fetch -> match -> report pipeline of main.py and      *)
(* core/{fetcher,matcher,reporter}.py.                                     *)
(*                                                                         *)
(* The specifications of the module:                                       *)
(*   SpecMatch  match_client applied to bounded ClientData inputs          *)
(*   SpecFetch  fetch_client_data: two concurrent _fetch_paginated streams *)
(*   Spec       run_matching_pipeline called by several requests           *)
(*              (FairSpec: the same with the event loop's fairness)        *)
(*   SpecRun    one call of run_matching_pipeline, up to MaxClients clients*)
(*   SpecOrch   one call, with the per-client tasks of each orchestrator   *)
(*              stage completing in any order                              *)
(* Each specification moves only its own variables.                        *)
(***************************************************************************)
EXTENDS Integers, Sequences, FiniteSets, TLC

\* ------------------------------------------------------------------ bounds
MaxLen == 3
   \* longest checkout / transaction list given to match_client (SpecMatch)
MaxPages == 2
   \* most pages one endpoint serves before it must stop paging (SpecFetch)
MaxPageLen == 1
   \* most records in one page (SpecFetch)
NumCalls == 2
   \* calls of run_matching_pipeline in one behaviour (Spec)
MaxClients == 2
   \* most clients in the configuration store (SpecRun)
MaxTime == 1
   \* the last second the clock reaches, counted from second 0 (Spec)

\* --------------------------------------------------------------- state
VARIABLES
    \* SpecMatch: one call of match_client
    m_given,        \* the ClientData as it was passed in (history)
    m_data,         \* the ClientData object, which match_client clears
    m_result,       \* what match_client returned: <<>> or <<MatchResult>>
    \* SpecFetch: one call of fetch_client_data
    f_pc,           \* per stream: where its _fetch_paginated stands
    page,           \* per stream: the local `page`
    all_data,       \* per stream: the local `all_data`
    requested,      \* per stream: the pages requested so far (history)
    responses,      \* per stream: the bodies received so far (history)
    f_exc,          \* per stream: the message of the exception it raised
    gather_exc,     \* the first exception asyncio.gather saw, or None
    f_result,       \* what fetch_client_data returned: <<>> or <<ClientData>>
    \* Spec, SpecRun: calls of run_matching_pipeline
    config_stores,  \* the contents clients.json may have when a run reads it
    is_running,     \* main.py global is_running
    last_run,       \* main.py global last_run: Unset (None) or Bound(run summary)
    files,          \* the reports directory: path -> content
    pc,             \* per call: where the call stands
    config,         \* per call: the local `config` (its clients)
    clients_data,   \* per call: the local `clients_data`
    match_results,  \* per call: the local `match_results`
    report_paths,   \* per call: the local `report_paths`
    email_sent,     \* per call: the local `email_sent`
    ret,            \* per call: what the call returned: <<>> or <<dict>>
    history,        \* per call: last_run as the call found it, the config it
                    \* loaded, the stages it completed, the stage that raised
                    \* (history)
    \* SpecOrch: the per-client tasks inside one orchestrator stage
    tasks,          \* per client index: Unset while its task of the current
                    \* stage runs, Bound(value) once the task has returned
    completion,     \* the tasks in the order they completed (history)
    \* the clock and the run directory
    now,            \* datetime.now(), in whole seconds
    run_dir,        \* per call: the local run_dir of generate_reports
    outbox          \* the number of messages the SMTP server accepted

match_vars == <<m_given, m_data, m_result>>
fetch_vars == <<f_pc, page, all_data, requested, responses, f_exc, gather_exc, f_result>>
pipe_vars == <<config_stores, is_running, last_run, files, pc, config, clients_data,
               match_results, report_paths, email_sent, ret, history, tasks, completion,
               now, run_dir, outbox>>
vars == <<match_vars, fetch_vars, pipe_vars>>

\* ---------------------------------------------------------- Python values
\* Python's None, as a value distinct from every string the model uses.
None == "<None>"

\* bool(x) for x a str or None: "" and None are falsy.
Truthy(x) == x # None /\ x # ""

\* The sequences over S of length at most n.
SeqUpTo(S, n) == UNION {[1..k -> S] : k \in 0..n}

RECURSIVE SumSeq(_)
\* sum(...) over a sequence of integers.
SumSeq(s) == IF s = <<>> THEN 0 ELSE Head(s) + SumSeq(Tail(s))

\* dict: a function whose domain is the set of keys.
EmptyDict == [k \in {} |-> None]
\* d.setdefault(k, v): an entry already present is kept.
DictSetDefault(d, k, v) == [x \in DOMAIN d \cup {k} |-> IF x \in DOMAIN d THEN d[x] ELSE v]
\* d[k] = v
DictSet(d, k, v) == [x \in DOMAIN d \cup {k} |-> IF x = k THEN v ELSE d[x]]
\* d.get(k, default)
DictGet(d, k, default) == IF k \in DOMAIN d THEN d[k] ELSE default

\* A str whose characters matter is the sequence of its characters.  The
\* client names of the sample configurations: "Acme", "Beta Co", "beta_co".
Acme == <<"A", "c", "m", "e">>
BetaCo == <<"B", "e", "t", "a", " ", "C", "o">>
beta_co == <<"b", "e", "t", "a", "_", "c", "o">>

\* str.lower(), on the letters the names are written with.
LowerChar(ch) ==
    CASE ch = "A" -> "a"
      [] ch = "B" -> "b"
      [] ch = "C" -> "c"
      [] OTHER -> ch
Lower(str) == [i \in DOMAIN str |-> LowerChar(str[i])]

\* str.replace(old, new) for single characters old and new.
Replace(str, old, new) == [i \in DOMAIN str |-> IF str[i] = old THEN new ELSE str[i]]

\* ------------------------------------------------- records of the two APIs
\* The join-key values a record may carry: absent/null (None), empty, or a key.
KeyValues == {None, "", "pi_1", "pi_2"}

\* A checkout journey record: its id and its stripe_payment_intent_id.
Checkout(i, pi) == [id |-> i, stripe_payment_intent_id |-> pi]
\* A transaction record: its id and its paya_reference.
Transaction(i, ref) == [id |-> i, paya_reference |-> ref]

\* Lists of records as an API returns them: the i-th record has id i.
CheckoutLists(n) ==
    {[i \in DOMAIN ks |-> Checkout(i, ks[i])] : ks \in SeqUpTo(KeyValues, n)}
TransactionLists(n) ==
    {[i \in DOMAIN ks |-> Transaction(i, ks[i])] : ks \in SeqUpTo(KeyValues, n)}

\* ------------------------------------------------------------- ClientData
\* fetcher.py ClientData(client_name): the dataclass defaults.
ClientData(name) ==
    [client_name |-> name, checkouts |-> <<>>, transactions |-> <<>>,
     checkout_count |-> 0, transaction_count |-> 0, error |-> None]

\* The body of fetch_client_data after the gather: `outcome` is what
\* asyncio.gather gave, either the two lists or the exception raised.
GatherOk(checkouts, txns) == [raised |-> FALSE, checkouts |-> checkouts, txns |-> txns]
GatherRaised(msg) == [raised |-> TRUE, message |-> msg]

fetch_client_data(name, outcome) ==
    IF outcome.raised
    THEN [ClientData(name) EXCEPT !.error = outcome.message]
    ELSE [ClientData(name) EXCEPT
            !.checkouts = outcome.checkouts,
            !.transactions = outcome.txns,
            !.checkout_count = Len(outcome.checkouts),
            !.transaction_count = Len(outcome.txns)]

\* ------------------------------------------------------------ match_client
\* matcher.py MatchResult(client_name): the dataclass defaults.
\* match_rate is the exact quotient num/den (0.0 is 0/1).
MatchResult(name) ==
    [client_name |-> name, matched |-> <<>>, unmatched |-> <<>>,
     matched_count |-> 0, unmatched_count |-> 0,
     total_checkouts |-> 0, total_transactions |-> 0,
     match_rate |-> [num |-> 0, den |-> 1], error |-> None]

\* The lookup set built from the first transaction only.
paya_ref_set_first_only(transactions) ==
    IF transactions # <<>> /\ Truthy(transactions[1].paya_reference)
    THEN {transactions[1].paya_reference} ELSE {}

\* The lookup set: every truthy paya_reference.
paya_ref_set(transactions) ==
    {transactions[i].paya_reference :
        i \in {j \in DOMAIN transactions : Truthy(transactions[j].paya_reference)}}

RECURSIVE txn_by_ref_upto(_, _)
\* The lookup dict after the first n transactions: each assignment
\* txn_by_ref[ref] = txn replaces an earlier entry of the same ref.
txn_by_ref_upto(transactions, n) ==
    IF n = 0 THEN EmptyDict
    ELSE LET d   == txn_by_ref_upto(transactions, n - 1)
             txn == transactions[n]
             ref == txn.paya_reference
         IN  IF Truthy(ref) THEN DictSet(d, ref, txn) ELSE d

txn_by_ref(transactions) == txn_by_ref_upto(transactions, Len(transactions))

\* MatchStep without the `if not pi: continue`: a checkout lacking an
\* identifier falls through to the lookup and lands in unmatched.
MatchStepNoSkip(st, checkout, by_ref) ==
    LET pi == checkout.stripe_payment_intent_id
    IN  IF pi \in st.refs
        THEN [st EXCEPT
                !.matched = Append(@, [checkout |-> checkout,
                                       transaction |-> DictGet(by_ref, pi, EmptyDict),
                                       payment_intent |-> pi]),
                !.refs = @ \ {pi}]
        ELSE [st EXCEPT !.unmatched = Append(@, checkout)]

\* MatchStep without the paya_ref_set.discard(pi): a matched reference
\* stays in the working set.
MatchStepNoDiscard(st, checkout, by_ref) ==
    LET pi == checkout.stripe_payment_intent_id
    IN  IF ~Truthy(pi) THEN st
        ELSE IF pi \in st.refs
        THEN [st EXCEPT
                !.matched = Append(@, [checkout |-> checkout,
                                       transaction |-> DictGet(by_ref, pi, EmptyDict),
                                       payment_intent |-> pi])]
        ELSE [st EXCEPT !.unmatched = Append(@, checkout)]

\* MatchStep with the membership test made on the reference-to-transaction
\* mapping, which keeps its entries, in place of the working set.
MatchStepByMapping(st, checkout, by_ref) ==
    LET pi == checkout.stripe_payment_intent_id
    IN  IF ~Truthy(pi) THEN st
        ELSE IF pi \in DOMAIN by_ref
        THEN [st EXCEPT
                !.matched = Append(@, [checkout |-> checkout,
                                       transaction |-> DictGet(by_ref, pi, EmptyDict),
                                       payment_intent |-> pi]),
                !.refs = @ \ {pi}]
        ELSE [st EXCEPT !.unmatched = Append(@, checkout)]

\* One iteration of the loop over checkouts; st holds the working set and
\* the two output lists.
MatchStep(st, checkout, by_ref) ==
    LET pi == checkout.stripe_payment_intent_id
    IN  IF ~Truthy(pi) THEN st
        ELSE IF pi \in st.refs
        THEN [st EXCEPT
                !.matched = Append(@, [checkout |-> checkout,
                                       transaction |-> DictGet(by_ref, pi, EmptyDict),
                                       payment_intent |-> pi]),
                !.refs = @ \ {pi}]
        ELSE [st EXCEPT !.unmatched = Append(@, checkout)]

RECURSIVE MatchLoop(_, _, _, _)
\* The loop over checkouts[1..n], from the initial working set refs.
MatchLoop(checkouts, n, refs, by_ref) ==
    IF n = 0 THEN [refs |-> refs, matched |-> <<>>, unmatched |-> <<>>]
    ELSE MatchStep(MatchLoop(checkouts, n - 1, refs, by_ref), checkouts[n], by_ref)

\* total_checkouts taken from the wrong counter.
TotalCheckoutsSwapped(client_data) == client_data.transaction_count

\* total_checkouts as match_client sets it.
TotalCheckouts(client_data) == client_data.checkout_count

\* result.error as match_client's first branch decides it: `if client_data.error`.
HasFetchError(client_data) == Truthy(client_data.error)

\* The quotient without the test of total: with total = 0 the division by
\* zero, shown as a quotient of denominator 0.
MatchRateUnguarded(mc, total) == [num |-> mc * 100, den |-> total]

\* (matched_count / total * 100) if total > 0 else 0.0
MatchRate(mc, total) ==
    IF total > 0 THEN [num |-> mc * 100, den |-> total] ELSE [num |-> 0, den |-> 1]

match_client(client_data) ==
    LET result == MatchResult(client_data.client_name)
    IN  IF HasFetchError(client_data)
        THEN [result EXCEPT !.error = client_data.error]
        ELSE
        LET st == MatchLoop(client_data.checkouts, Len(client_data.checkouts),
                            paya_ref_set(client_data.transactions),
                            txn_by_ref(client_data.transactions))
            mc == Len(st.matched)
            uc == Len(st.unmatched)
            total == mc + uc
        IN  [result EXCEPT
               !.total_checkouts = TotalCheckouts(client_data),
               !.total_transactions = client_data.transaction_count,
               !.matched = st.matched,
               !.unmatched = st.unmatched,
               !.matched_count = mc,
               !.unmatched_count = uc,
               !.match_rate = MatchRate(mc, total)]

\* The ClientData match_client leaves behind: both raw lists are cleared
\* (not on the early return of a fetch error).
ClearedAfterMatch(client_data) ==
    IF HasFetchError(client_data) THEN client_data
    ELSE [client_data EXCEPT !.checkouts = <<>>, !.transactions = <<>>]

\* The messages str(e) of the exceptions a fetch can end with: the two
\* raised by _fetch_paginated, and asyncio.TimeoutError(), whose str is "".
HttpErrorMessage == "HTTP 500 from url"
ApiErrorMessage == "API error: Unknown"
TimeoutMessage == ""
FetchErrors == {HttpErrorMessage, ApiErrorMessage, TimeoutMessage}

\* What a call has returned: the empty sequence until it returns, then the
\* one value.
NotReturned == <<>>
Returned(v) == <<v>>

\* A name bound to None or not yet assigned, and a name bound to a dict or
\* an object: the empty sequence, and the sequence of the one value.
Unset == <<>>
Bound(v) == <<v>>

\* ------------------------------------------------------------ load_config
\* The names a client may be configured under.
ClientNames == {Acme, BetaCo, beta_co}

\* settings.email of clients.json: configured, or lacking the sender
\* address (the default ""), or lacking recipients (the default []).
EmailConfigured == [sender_email |-> "ops@example.org", admin_emails |-> <<"admin@example.org">>]
EmailNoSender == [sender_email |-> "", admin_emails |-> <<"admin@example.org">>]
EmailNoRecipients == [sender_email |-> "ops@example.org", admin_emails |-> <<>>]
EmailConfigs == {EmailConfigured, EmailNoSender, EmailNoRecipients}

\* clients.json: at most n client entries with distinct names, and the
\* email settings.
ConfigStores(n) ==
    {[clients |-> cl, email |-> e] :
        cl \in {st \in SeqUpTo([name : ClientNames, enabled : BOOLEAN], n) :
                  \A i, j \in DOMAIN st : i # j => st[i].name # st[j].name},
        e \in EmailConfigs}

\* load_config: the enabled clients, in the order of the file, and the
\* email settings.
load_config(store) ==
    [clients |-> SelectSeq(store.clients, LAMBDA e : e.enabled), email |-> store.email]

\* --------------------------------------------------------- match_all_clients
\* executor.map(match_client, clients_data): one result per client, in order.
match_all_clients(cds) == [i \in DOMAIN cds |-> match_client(cds[i])]

\* ---------------------------------------------------------- generate_reports
\* round(match_rate, 2), as a number of hundredths.
Round2(rate) == [hundredths |-> (2 * rate.num * 100 + rate.den) \div (2 * rate.den)]

\* The fields of a checkout that the reports copy.
UnmatchedRecord(c) == [id |-> c.id, payment_intent |-> c.stripe_payment_intent_id]

CsvHeader == <<"Client", "Checkout ID", "Payment Intent">>

\* _generate_csv: the header row, then one row per unmatched checkout.
_generate_csv(result) ==
    <<CsvHeader>> \o
    [i \in DOMAIN result.unmatched |->
        <<result.client_name, result.unmatched[i].id,
          result.unmatched[i].stripe_payment_intent_id>>]

\* The data rows of a CSV text.
DataRows(csv) == Tail(csv)

_generate_json(result) ==
    [client |-> result.client_name,
     summary |-> [total_checkouts |-> result.total_checkouts,
                  total_transactions |-> result.total_transactions,
                  matched |-> result.matched_count,
                  unmatched |-> result.unmatched_count,
                  match_rate |-> Round2(result.match_rate)],
     unmatched_records |->
        [i \in DOMAIN result.unmatched |-> UnmatchedRecord(result.unmatched[i])]]

\* client_name.replace(" ", "_").lower()
SafeName(name) == Lower(Replace(name, " ", "_"))

\* datetime.now().strftime("%Y%m%d_%H%M%S"): the clock to the second.
Timestamp(t) == [second |-> t]

\* REPORTS_DIR / timestamp
RunDir(t) == [reports |-> Timestamp(t)]
\* A file name: the characters computed from a client name, then a fixed
\* ending.
FileName(stem, ending) == [stem |-> stem, ending |-> ending]
CsvPath(dir, name) == [dir |-> dir, file |-> FileName(SafeName(name), "_unmatched.csv")]
JsonPath(dir) == [dir |-> dir, file |-> FileName(<<>>, "combined_report.json")]

\* `if r.error` in the sums of the combined report and of the run summary.
CountsAsError(r) == Truthy(r.error)

\* The combined report with total_unmatched taken as the checkouts that
\* were not matched.
CombinedCountingCheckouts(results) ==
    [total_clients |-> Len(results),
     overall_summary |->
        [total_matched |-> SumSeq([i \in DOMAIN results |-> results[i].matched_count]),
         total_unmatched |->
            SumSeq([i \in DOMAIN results |->
                      results[i].total_checkouts - results[i].matched_count]),
         clients_with_errors |->
            Cardinality({i \in DOMAIN results : CountsAsError(results[i])})],
     clients |-> [i \in DOMAIN results |-> _generate_json(results[i])]]

\* The combined report.
Combined(results) ==
    [total_clients |-> Len(results),
     overall_summary |->
        [total_matched |-> SumSeq([i \in DOMAIN results |-> results[i].matched_count]),
         total_unmatched |-> SumSeq([i \in DOMAIN results |-> results[i].unmatched_count]),
         clients_with_errors |->
            Cardinality({i \in DOMAIN results : CountsAsError(results[i])})],
     clients |-> [i \in DOMAIN results |-> _generate_json(results[i])]]

\* What generate_reports returns.
generate_reports(results, dir) ==
    [dir |-> dir,
     json_path |-> JsonPath(dir),
     csv_files |-> [i \in DOMAIN results |-> CsvPath(dir, results[i].client_name)],
     combined_json |-> Combined(results)]

\* path.write_text(content)
WriteText(fs, path, content) == DictSet(fs, path, content)

RECURSIVE WriteCsvs(_, _, _, _)
\* The files after the workers of process_client wrote their CSVs, the
\* writes landing in the order `order` (a sequence of client indexes).
WriteCsvs(fs, results, order, dir) ==
    IF order = <<>> THEN fs
    ELSE WriteCsvs(WriteText(fs, CsvPath(dir, results[Head(order)].client_name),
                             _generate_csv(results[Head(order)])),
                   results, Tail(order), dir)

\* The orders in which n writes can land.
Orders(n) == {o \in [1..n -> 1..n] : \A i, j \in 1..n : i # j => o[i] # o[j]}

\* ------------------------------------------------------------ run summary
\* run_summary that leaves out the clients whose result carries an error.
RunSummaryWithoutFailed(results, sent, paths) ==
    LET kept == SelectSeq(results, LAMBDA r : ~CountsAsError(r))
    IN  [email_sent |-> sent,
         report_dir |-> paths.dir,
         clients |->
            [i \in DOMAIN kept |->
                [name |-> kept[i].client_name,
                 matched |-> kept[i].matched_count,
                 unmatched |-> kept[i].unmatched_count,
                 total_checkouts |-> kept[i].total_checkouts,
                 total_transactions |-> kept[i].total_transactions,
                 match_rate |-> Round2(kept[i].match_rate),
                 error |-> kept[i].error,
                 unmatched_records |->
                    [k \in DOMAIN kept[i].unmatched |-> UnmatchedRecord(kept[i].unmatched[k])]]],
         totals |->
            [matched |-> SumSeq([i \in DOMAIN results |-> results[i].matched_count]),
             unmatched |-> SumSeq([i \in DOMAIN results |-> results[i].unmatched_count]),
             errors |-> Cardinality({i \in DOMAIN results : CountsAsError(results[i])})]]

\* run_summary as run_matching_pipeline builds it from match_results.
RunSummary(results, sent, paths) ==
    [email_sent |-> sent,
     report_dir |-> paths.dir,
     clients |->
        [i \in DOMAIN results |->
            [name |-> results[i].client_name,
             matched |-> results[i].matched_count,
             unmatched |-> results[i].unmatched_count,
             total_checkouts |-> results[i].total_checkouts,
             total_transactions |-> results[i].total_transactions,
             match_rate |-> Round2(results[i].match_rate),
             error |-> results[i].error,
             unmatched_records |->
                [k \in DOMAIN results[i].unmatched |->
                    UnmatchedRecord(results[i].unmatched[k])]]],
     totals |->
        [matched |-> SumSeq([i \in DOMAIN results |-> results[i].matched_count]),
         unmatched |-> SumSeq([i \in DOMAIN results |-> results[i].unmatched_count]),
         errors |-> Cardinality({i \in DOMAIN results : CountsAsError(results[i])})]]

\* The two error dicts run_matching_pipeline returns.
AlreadyRunning == [error |-> "A matching job is already running"]
PipelineError(msg) == [error |-> msg]

\* The calls of run_matching_pipeline.
Calls == 1..NumCalls

NoHistory ==
    [last_run_before |-> Unset, config |-> Unset, stages |-> <<>>, failed_at |-> None,
     answer |-> None]

PipelineAtRest ==
    /\ config_stores = {}
    /\ is_running = FALSE
    /\ last_run = Unset
    /\ files = EmptyDict
    /\ pc = [c \in Calls |-> "unused"]
    /\ config = [c \in Calls |-> Unset]
    /\ clients_data = [c \in Calls |-> <<>>]
    /\ match_results = [c \in Calls |-> <<>>]
    /\ report_paths = [c \in Calls |-> Unset]
    /\ email_sent = [c \in Calls |-> FALSE]
    /\ ret = [c \in Calls |-> NotReturned]
    /\ history = [c \in Calls |-> NoHistory]
    /\ tasks = <<>>
    /\ completion = <<>>
    /\ now = 0
    /\ run_dir = [c \in Calls |-> Unset]
    /\ outbox = 0

\* ============================================================== SpecMatch
\* The variables of the other specifications, at rest.
Streams == {"checkout", "txn"}

FetchAtRest ==
    /\ f_pc = [s \in Streams |-> "unused"]
    /\ page = [s \in Streams |-> 1]
    /\ all_data = [s \in Streams |-> <<>>]
    /\ requested = [s \in Streams |-> <<>>]
    /\ responses = [s \in Streams |-> <<>>]
    /\ f_exc = [s \in Streams |-> None]
    /\ gather_exc = None
    /\ f_result = NotReturned

MatchAtRest ==
    /\ m_given = ClientData(Acme)
    /\ m_data = ClientData(Acme)
    /\ m_result = NotReturned

\* What fetch_client_data can hand to match_client, lists up to MaxLen.
MatchInputs ==
    {fetch_client_data(Acme, GatherOk(c, t)) :
        c \in CheckoutLists(MaxLen), t \in TransactionLists(MaxLen)}
    \cup {fetch_client_data(Acme, GatherRaised(msg)) : msg \in FetchErrors}

InitMatch ==
    /\ m_given \in MatchInputs
    /\ m_data = m_given
    /\ m_result = NotReturned
    /\ FetchAtRest
    /\ PipelineAtRest

\* match_client(client_data), start to return.
MatchClient ==
    /\ m_result = NotReturned
    /\ m_result' = Returned(match_client(m_data))
    /\ m_data' = ClearedAfterMatch(m_data)
    /\ UNCHANGED <<m_given, fetch_vars, pipe_vars>>

NextMatch == MatchClient

SpecMatch == InitMatch /\ [][NextMatch]_vars

\* The checkouts of a list whose payment-intent identifier is present and
\* non-empty.
WithIntent(checkouts) ==
    {i \in DOMAIN checkouts : Truthy(checkouts[i].stripe_payment_intent_id)}

Matched == m_result # NotReturned

\* C1: for every list of transactions and checkouts given to match_client on
\* a ClientData with no fetch error, matched_count + unmatched_count is the
\* number of checkouts whose stripe_payment_intent_id is present and
\* non-empty.
C1_CountsCoverIntents ==
    (Matched /\ m_given.error = None) =>
        m_result[1].matched_count + m_result[1].unmatched_count
            = Cardinality(WithIntent(m_given.checkouts))

\* A call with one checkout matched, one unmatched and one lacking an
\* identifier.
C1_Witness ==
    /\ Matched /\ m_given.error = None
    /\ m_result[1].matched_count = 1
    /\ m_result[1].unmatched_count = 1
    /\ Len(m_given.checkouts) = 3

PageItems == {"rec_a", "rec_b"}

\* The `data` of one response.
PageData == SeqUpTo(PageItems, MaxPageLen)

RECURSIVE ConcatData(_)
\* The data of a list of bodies, concatenated in order.
ConcatData(bodies) ==
    IF bodies = <<>> THEN <<>>
    ELSE ConcatData(SubSeq(bodies, 1, Len(bodies) - 1)) \o bodies[Len(bodies)].data

\* `page += 1` with the increment forgotten.
NextPageStuck(p) == p

\* `page += 1`
NextPage(p) == p + 1

InitFetch ==
    /\ f_pc = [s \in Streams |-> "request"]
    /\ page = [s \in Streams |-> 1]
    /\ all_data = [s \in Streams |-> <<>>]
    /\ requested = [s \in Streams |-> <<>>]
    /\ responses = [s \in Streams |-> <<>>]
    /\ f_exc = [s \in Streams |-> None]
    /\ gather_exc = None
    /\ f_result = NotReturned
    /\ MatchAtRest
    /\ PipelineAtRest

\* _fetch_paginated: session.get(url, params={page, ...}) is issued and the
\* coroutine waits for the response.
SendRequest(s) ==
    /\ f_pc[s] = "request"
    /\ requested' = [requested EXCEPT ![s] = Append(@, page[s])]
    /\ f_pc' = [f_pc EXCEPT ![s] = "waiting"]
    /\ UNCHANGED <<page, all_data, responses, f_exc, gather_exc, f_result, match_vars, pipe_vars>>

\* The exception msg leaves _fetch_paginated of stream s; asyncio.gather
\* keeps the first exception of its children.
Raise(s, msg) ==
    /\ f_pc' = [f_pc EXCEPT ![s] = "raised"]
    /\ f_exc' = [f_exc EXCEPT ![s] = msg]
    /\ gather_exc' = IF gather_exc = None THEN msg ELSE gather_exc
    /\ UNCHANGED <<page, all_data, requested, responses, f_result, match_vars, pipe_vars>>

\* A page with a success envelope marked failed ends the loop as if it were
\* the last page.
ApiErrorReturnsPartial(s) ==
    /\ f_pc[s] = "waiting"
    /\ f_pc' = [f_pc EXCEPT ![s] = "returned"]
    /\ UNCHANGED <<page, all_data, requested, responses, f_exc, gather_exc,
                   f_result, match_vars, pipe_vars>>

\* resp.status != 200
HttpStatusError(s) ==
    /\ f_pc[s] = "waiting"
    /\ Raise(s, HttpErrorMessage)

\* status 200 and a body whose `success` is falsy
ApiError(s) ==
    /\ f_pc[s] = "waiting"
    /\ Raise(s, ApiErrorMessage)

\* The request exceeds ClientTimeout(total=timeout): asyncio.TimeoutError().
RequestTimeout(s) ==
    /\ f_pc[s] = "waiting"
    /\ Raise(s, TimeoutMessage)

\* status 200, success true: the page is appended; the loop ends when
\* has_more is falsy and asks for the next page otherwise.  An endpoint
\* serves at most MaxPages pages.
ReceivePage(s) ==
    /\ f_pc[s] = "waiting"
    /\ \E data \in PageData, has_more \in BOOLEAN :
          /\ has_more => Len(requested[s]) < MaxPages
          /\ responses' = [responses EXCEPT
                             ![s] = Append(@, [data |-> data, has_more |-> has_more])]
          /\ all_data' = [all_data EXCEPT ![s] = @ \o data]
          /\ IF has_more
             THEN /\ page' = [page EXCEPT ![s] = NextPage(@)]
                  /\ f_pc' = [f_pc EXCEPT ![s] = "request"]
             ELSE /\ page' = page
                  /\ f_pc' = [f_pc EXCEPT ![s] = "returned"]
    /\ UNCHANGED <<requested, f_exc, gather_exc, f_result, match_vars, pipe_vars>>

\* fetch_client_data resumed by a gather whose first failure was seen when
\* the other stream had already returned: the lists so far are kept.
GatherRaisesKeepsPartial ==
    /\ f_result = NotReturned
    /\ gather_exc # None
    /\ f_result' = Returned(
            [fetch_client_data(Acme, GatherRaised(gather_exc)) EXCEPT
                !.checkouts = IF f_pc["checkout"] = "returned"
                              THEN all_data["checkout"] ELSE <<>>,
                !.checkout_count = Len(IF f_pc["checkout"] = "returned"
                                       THEN all_data["checkout"] ELSE <<>>)])
    /\ UNCHANGED <<f_pc, page, all_data, requested, responses, f_exc, gather_exc,
                   match_vars, pipe_vars>>

\* Both streams returned: the gather gives the two lists and
\* fetch_client_data returns them.
GatherReturns ==
    /\ f_result = NotReturned
    /\ \A s \in Streams : f_pc[s] = "returned"
    /\ f_result' = Returned(fetch_client_data(Acme,
                        GatherOk(all_data["checkout"], all_data["txn"])))
    /\ UNCHANGED <<f_pc, page, all_data, requested, responses, f_exc, gather_exc,
                   match_vars, pipe_vars>>

\* A stream raised: the gather raises its first exception into
\* fetch_client_data, whose `except Exception` returns the error.
GatherRaises ==
    /\ f_result = NotReturned
    /\ gather_exc # None
    /\ f_result' = Returned(fetch_client_data(Acme, GatherRaised(gather_exc)))
    /\ UNCHANGED <<f_pc, page, all_data, requested, responses, f_exc, gather_exc,
                   match_vars, pipe_vars>>

NextFetch ==
    \/ \E s \in Streams : SendRequest(s)
    \/ \E s \in Streams : HttpStatusError(s)
    \/ \E s \in Streams : ApiError(s)
    \/ \E s \in Streams : RequestTimeout(s)
    \/ \E s \in Streams : ReceivePage(s)
    \/ GatherReturns
    \/ GatherRaises

SpecFetch == InitFetch /\ [][NextFetch]_vars

\* Stream s has a page that was requested and got no successful body, and is
\* no longer waiting for it: that page failed.
PageFailed(s) == f_pc[s] # "waiting" /\ Len(requested[s]) > Len(responses[s])

\* C8: for any sequence of successful page responses, _fetch_paginated
\* requests pages 1, 2, 3, ... one at a time (page N+1 only after page N has
\* returned), stops exactly at the first response whose has_more is false, and
\* returns the concatenation, in page order, of the data of every page it
\* requested.
C8_SequentialPagesConcatenated ==
    \A s \in Streams :
        /\ \A i \in DOMAIN requested[s] : requested[s][i] = i
        /\ Len(requested[s]) \in {Len(responses[s]), Len(responses[s]) + 1}
        /\ (Len(requested[s]) = Len(responses[s]) + 1) <=> f_pc[s] \in {"waiting", "raised"}
        /\ \A i \in DOMAIN responses[s] :
              ~responses[s][i].has_more =>
                  /\ i = Len(responses[s])
                  /\ Len(requested[s]) = i
                  /\ f_pc[s] = "returned"
        /\ f_pc[s] = "returned" =>
              /\ responses[s] # <<>>
              /\ ~responses[s][Len(responses[s])].has_more
              /\ all_data[s] = ConcatData(responses[s])
        /\ (f_result # NotReturned /\ f_result[1].error = None) =>
              /\ f_result[1].checkouts = ConcatData(responses["checkout"])
              /\ f_result[1].transactions = ConcatData(responses["txn"])

\* The checkout stream returned two pages, one record each, and the caller
\* got both records in page order.
C8_Witness ==
    /\ f_pc["checkout"] = "returned"
    /\ requested["checkout"] = <<1, 2>>
    /\ f_result # NotReturned
    /\ f_result[1].checkouts = <<"rec_a", "rec_b">>

\* C9: if a page of an endpoint fails (non-success status, or a success
\* envelope marked failed), then whatever pages were retrieved before, its
\* _fetch_paginated ends with one error and returns no list, the failed page
\* is the last one requested, and the caller never gets the earlier pages'
\* records as a successful result.
C9_FailedPageAbortsFetch ==
    \A s \in Streams :
        PageFailed(s) =>
            /\ f_pc[s] = "raised"
            /\ f_exc[s] \in FetchErrors
            /\ Len(requested[s]) = Len(responses[s]) + 1
            /\ f_result # NotReturned =>
                  /\ f_result[1].error # None
                  /\ f_result[1].checkouts = <<>>
                  /\ f_result[1].transactions = <<>>

\* The transaction stream failed on its second page, with a record already
\* retrieved, and fetch_client_data has returned.
C9_Witness ==
    /\ f_pc["txn"] = "raised"
    /\ f_exc["txn"] = ApiErrorMessage
    /\ Len(responses["txn"]) = 1
    /\ all_data["txn"] # <<>>
    /\ f_result # NotReturned

\* C10: fetch_client_data never raises: for any failure of either stream, in
\* any order of completion, it returns a ClientData whose error carries the
\* failure and whose checkouts and transactions are empty with both counts
\* 0, even if the other stream had already completed successfully.
C10_FailureReturnsEmptyData ==
    f_result # NotReturned =>
        IF gather_exc # None
        THEN /\ f_result[1].error = gather_exc
             /\ f_result[1].error # None
             /\ f_result[1].checkouts = <<>>
             /\ f_result[1].transactions = <<>>
             /\ f_result[1].checkout_count = 0
             /\ f_result[1].transaction_count = 0
        ELSE /\ f_result[1].error = None
             /\ \A s \in Streams : f_pc[s] = "returned"

\* The checkout stream completed with records, the transaction stream
\* failed, and the ClientData returned carries that failure.
C10_Witness ==
    /\ f_pc["checkout"] = "returned"
    /\ all_data["checkout"] # <<>>
    /\ f_pc["txn"] = "raised"
    /\ f_result # NotReturned
    /\ f_result[1].error = f_exc["txn"]

\* =================================================================== Spec
\* What the gather of one client's two streams can give the pipeline: an
\* exception of the fetch, or one of two sample pairs of lists.
SampleFetched ==
    {GatherOk(<<>>, <<>>),
     GatherOk(<<Checkout(1, "pi_1"), Checkout(2, "pi_2"), Checkout(3, "")>>,
              <<Transaction(1, "pi_1")>>)}
PipelineOutcomes == {GatherRaised(msg) : msg \in FetchErrors} \cup SampleFetched

PipelineErrorMessage == "pipeline error"

\* The positions of a call inside the try block.
InTry == {"load", "fetch", "paging", "fetching", "match", "matching", "report",
          "reporting", "notify", "summary"}

\* The configurations the guard is exercised with: no client, and one client.
GuardStores ==
    {[clients |-> <<>>, email |-> EmailNoSender],
     [clients |-> <<[name |-> Acme, enabled |-> TRUE]>>, email |-> EmailConfigured]}

Init ==
    /\ config_stores = GuardStores
    /\ is_running = FALSE
    /\ last_run = Unset
    /\ files = EmptyDict
    /\ pc = [c \in Calls |-> "idle"]
    /\ config = [c \in Calls |-> Unset]
    /\ clients_data = [c \in Calls |-> <<>>]
    /\ match_results = [c \in Calls |-> <<>>]
    /\ report_paths = [c \in Calls |-> Unset]
    /\ email_sent = [c \in Calls |-> FALSE]
    /\ ret = [c \in Calls |-> NotReturned]
    /\ history = [c \in Calls |-> NoHistory]
    /\ tasks = <<>>
    /\ completion = <<>>
    /\ now = 0
    /\ run_dir = [c \in Calls |-> Unset]
    /\ outbox = 0
    /\ MatchAtRest
    /\ FetchAtRest

Completed(c, stage) == [history EXCEPT ![c].stages = Append(@, stage)]

\* The call returns: its frame, with the locals, is gone.
FrameDropped(c) ==
    /\ config' = [config EXCEPT ![c] = Unset]
    /\ clients_data' = [clients_data EXCEPT ![c] = <<>>]
    /\ match_results' = [match_results EXCEPT ![c] = <<>>]
    /\ report_paths' = [report_paths EXCEPT ![c] = Unset]
    /\ email_sent' = [email_sent EXCEPT ![c] = FALSE]

\* The rejected call with the return inside the try block: its finally
\* resets the flag of the run in progress.
RejectRunResets(c) ==
    /\ pc[c] = "idle"
    /\ is_running
    /\ is_running' = FALSE
    /\ pc' = [pc EXCEPT ![c] = "rejected"]
    /\ ret' = [ret EXCEPT ![c] = Returned(AlreadyRunning)]
    /\ UNCHANGED <<last_run, files, config, clients_data,
                   match_results, report_paths, email_sent, history,
                   config_stores, tasks, completion, now, run_dir, outbox, match_vars, fetch_vars>>

\* run_matching_pipeline, `if is_running: return {...}`: before the try.
RejectRun(c) ==
    /\ pc[c] = "idle"
    /\ is_running
    /\ pc' = [pc EXCEPT ![c] = "rejected"]
    /\ ret' = [ret EXCEPT ![c] = Returned(AlreadyRunning)]
    /\ UNCHANGED <<is_running, last_run, files, config, clients_data,
                   match_results, report_paths, email_sent, history,
                   config_stores, tasks, completion, now, run_dir, outbox, match_vars, fetch_vars>>

\* The guard passed without `is_running = True`.
AcceptRunFlagNotSet(c) ==
    /\ pc[c] = "idle"
    /\ ~is_running
    /\ pc' = [pc EXCEPT ![c] = "load"]
    /\ history' = [history EXCEPT ![c].last_run_before = last_run]
    /\ UNCHANGED <<is_running, last_run, files, config, clients_data,
                   match_results, report_paths, email_sent, ret,
                   config_stores, tasks, completion, now, run_dir, outbox, match_vars, fetch_vars>>

\* The guard passed: `is_running = True` follows the test with no await in
\* between, so the two are one step of the event loop.
AcceptRun(c) ==
    /\ pc[c] = "idle"
    /\ ~is_running
    /\ is_running' = TRUE
    /\ pc' = [pc EXCEPT ![c] = "load"]
    /\ history' = [history EXCEPT ![c].last_run_before = last_run]
    /\ UNCHANGED <<last_run, files, config, clients_data,
                   match_results, report_paths, email_sent, ret,
                   config_stores, tasks, completion, now, run_dir, outbox, match_vars, fetch_vars>>

\* config = load_config(): clients.json is read as it is at this moment.
LoadConfig(c) ==
    /\ pc[c] = "load"
    /\ \E store \in config_stores :
          /\ config' = [config EXCEPT ![c] = Bound(load_config(store))]
          /\ history' = [Completed(c, "load") EXCEPT ![c].config = Bound(load_config(store))]
    /\ pc' = [pc EXCEPT ![c] = "fetch"]
    /\ UNCHANGED <<is_running, last_run, files, clients_data,
                   match_results, report_paths, email_sent, ret,
                   config_stores, tasks, completion, now, run_dir, outbox, match_vars, fetch_vars>>

\* await fetch_all_clients: some stream of some client received a page whose
\* has_more is true (_fetch_paginated, `page += 1`) ...
FetchPageMore(c) ==
    /\ pc[c] = "fetch"
    /\ config[c][1].clients # <<>>
    /\ pc' = [pc EXCEPT ![c] = "paging"]
    /\ UNCHANGED <<is_running, last_run, files, config, clients_data,
                   match_results, report_paths, email_sent, ret, history,
                   config_stores, tasks, completion, now, run_dir, outbox, match_vars, fetch_vars>>

\* ... and requests the next one (the top of `while True`).
FetchNextPage(c) ==
    /\ pc[c] = "paging"
    /\ pc' = [pc EXCEPT ![c] = "fetch"]
    /\ UNCHANGED <<is_running, last_run, files, config, clients_data,
                   match_results, report_paths, email_sent, ret, history,
                   config_stores, tasks, completion, now, run_dir, outbox, match_vars, fetch_vars>>

\* fetch_all_clients returns: one ClientData per client of config, in order.
FetchAllClients(c) ==
    /\ pc[c] = "fetch"
    /\ \E outcomes \in [DOMAIN config[c][1].clients -> PipelineOutcomes] :
          clients_data' = [clients_data EXCEPT ![c] =
              [i \in DOMAIN config[c][1].clients |->
                  fetch_client_data(config[c][1].clients[i].name, outcomes[i])]]
    /\ pc' = [pc EXCEPT ![c] = "match"]
    /\ history' = Completed(c, "fetch")
    /\ UNCHANGED <<is_running, last_run, files, config,
                   match_results, report_paths, email_sent, ret,
                   config_stores, tasks, completion, now, run_dir, outbox, match_vars, fetch_vars>>

\* match_results = match_all_clients(clients_data, ...)
MatchAllClients(c) ==
    /\ pc[c] = "match"
    /\ match_results' = [match_results EXCEPT ![c] = match_all_clients(clients_data[c])]
    /\ clients_data' = [clients_data EXCEPT ![c] =
          [i \in DOMAIN @ |-> ClearedAfterMatch(@[i])]]
    /\ pc' = [pc EXCEPT ![c] = "report"]
    /\ history' = Completed(c, "match")
    /\ UNCHANGED <<is_running, last_run, files, config,
                   report_paths, email_sent, ret, config_stores, tasks, completion, now, run_dir, outbox, match_vars, fetch_vars>>

\* report_paths = generate_reports(match_results, ...): the CSVs are written
\* by the worker pool, then the combined report.
GenerateReports(c) ==
    /\ pc[c] = "report"
    /\ \E order \in Orders(Len(match_results[c])) :
          files' = WriteText(WriteCsvs(files, match_results[c], order, RunDir(now)),
                             JsonPath(RunDir(now)), Combined(match_results[c]))
    /\ report_paths' = [report_paths EXCEPT ![c] =
                          Bound(generate_reports(match_results[c], RunDir(now)))]
    /\ pc' = [pc EXCEPT ![c] = "notify"]
    /\ history' = Completed(c, "report")
    /\ UNCHANGED <<is_running, last_run, config, clients_data,
                   match_results, email_sent, ret, config_stores, tasks, completion, now, run_dir, outbox, match_vars, fetch_vars>>

\* How the sending of a message can end: every step succeeds, or the
\* composing, the connection, STARTTLS, the login or the sending raises.
SmtpOutcomes == {"sent", "compose", "connect", "starttls", "login", "send"}

\* send_email_report that lets a failure of the SMTP session out.
send_email_report_uncaught(email_config, outcome) ==
    IF ~Truthy(email_config.sender_email) \/ email_config.admin_emails = <<>>
    THEN [raised |-> FALSE, value |-> FALSE, accepted |-> 0]
    ELSE IF outcome = "sent"
    THEN [raised |-> FALSE, value |-> TRUE, accepted |-> 1]
    ELSE [raised |-> TRUE, value |-> FALSE, accepted |-> 0]

\* send_email_report: what it returns, whether an exception leaves it, and
\* how many messages the server accepted.  An unset sender or recipient list
\* returns False at once; inside the try every exception is caught and
\* False is returned.
send_email_report(email_config, outcome) ==
    IF ~Truthy(email_config.sender_email) \/ email_config.admin_emails = <<>>
    THEN [raised |-> FALSE, value |-> FALSE, accepted |-> 0]
    ELSE IF outcome = "sent"
    THEN [raised |-> FALSE, value |-> TRUE, accepted |-> 1]
    ELSE [raised |-> FALSE, value |-> FALSE, accepted |-> 0]

\* email_sent = send_email_report(config.email, report_paths, match_results);
\* an exception leaving it would be one of the notify stage.
SendEmailReport(c) ==
    /\ pc[c] = "notify"
    /\ \E outcome \in SmtpOutcomes :
          LET r == send_email_report(config[c][1].email, outcome)
          IN  /\ outbox' = outbox + r.accepted
              /\ IF r.raised
                 THEN /\ ret' = [ret EXCEPT ![c] = Returned(PipelineError(PipelineErrorMessage))]
                      /\ is_running' = FALSE
                      /\ pc' = [pc EXCEPT ![c] = "done"]
                      /\ history' = [history EXCEPT ![c].failed_at = "notify"]
                      /\ FrameDropped(c)
                 ELSE /\ email_sent' = [email_sent EXCEPT ![c] = r.value]
                      /\ pc' = [pc EXCEPT ![c] = "summary"]
                      /\ history' = Completed(c, "notify")
                      /\ UNCHANGED <<is_running, config, clients_data, match_results,
                                     report_paths, ret>>
    /\ UNCHANGED <<last_run, files, config_stores, tasks, completion, now, run_dir,
                   match_vars, fetch_vars>>

\* The summary is built and recorded, the call returns it, and the finally
\* clause resets the flag.
RecordSummary(c) ==
    /\ pc[c] = "summary"
    /\ LET run_summary == RunSummary(match_results[c], email_sent[c], report_paths[c][1])
       IN  /\ last_run' = Bound(run_summary)
           /\ ret' = [ret EXCEPT ![c] = Returned(run_summary)]
    /\ is_running' = FALSE
    /\ pc' = [pc EXCEPT ![c] = "done"]
    /\ history' = Completed(c, "summary")
    /\ FrameDropped(c)
    /\ UNCHANGED <<files, config_stores, tasks, completion, now, run_dir, outbox, match_vars, fetch_vars>>

\* The stages in which an exception can leave the try block: everywhere but
\* in send_email_report, which catches its own.
RaisingStages == {"load", "fetch", "paging", "match", "report", "summary"}

\* An exception with no finally clause: the flag is left set.
RaisePipelineErrorNoFinally(c) ==
    /\ pc[c] \in RaisingStages
    /\ ret' = [ret EXCEPT ![c] = Returned(PipelineError(PipelineErrorMessage))]
    /\ pc' = [pc EXCEPT ![c] = "done"]
    /\ history' = [history EXCEPT ![c].failed_at = pc[c]]
    /\ FrameDropped(c)
    /\ UNCHANGED <<is_running, last_run, files, config_stores, tasks, completion, now, run_dir, outbox, match_vars, fetch_vars>>

\* An exception that records what the run has so far as last_run.
RaisePipelineErrorRecords(c) ==
    /\ pc[c] \in RaisingStages
    /\ ret' = [ret EXCEPT ![c] = Returned(PipelineError(PipelineErrorMessage))]
    /\ last_run' = Bound(PipelineError(PipelineErrorMessage))
    /\ is_running' = FALSE
    /\ pc' = [pc EXCEPT ![c] = "done"]
    /\ history' = [history EXCEPT ![c].failed_at = pc[c]]
    /\ FrameDropped(c)
    /\ UNCHANGED <<files, config_stores, tasks, completion, now, run_dir, outbox, match_vars, fetch_vars>>

\* An exception in a stage: `except Exception` returns the error dict and
\* the finally clause resets the flag.  (A report stage that raises is taken
\* to raise before its first write.)
RaisePipelineError(c) ==
    /\ pc[c] \in RaisingStages
    /\ ret' = [ret EXCEPT ![c] = Returned(PipelineError(PipelineErrorMessage))]
    /\ is_running' = FALSE
    /\ pc' = [pc EXCEPT ![c] = "done"]
    /\ history' = [history EXCEPT ![c].failed_at = pc[c]]
    /\ FrameDropped(c)
    /\ UNCHANGED <<last_run, files, config_stores, tasks, completion, now, run_dir, outbox, match_vars, fetch_vars>>

\* A second passes on the clock.
Tick ==
    /\ now < MaxTime
    /\ now' = now + 1
    /\ UNCHANGED <<config_stores, is_running, last_run, files, pc, config,
                   clients_data, match_results, report_paths, email_sent, ret,
                   history, tasks, completion, run_dir, outbox, match_vars, fetch_vars>>

Next ==
    \/ Tick
    \/ \E c \in Calls : RejectRun(c)
    \/ \E c \in Calls : AcceptRun(c)
    \/ \E c \in Calls : LoadConfig(c)
    \/ \E c \in Calls : FetchPageMore(c)
    \/ \E c \in Calls : FetchNextPage(c)
    \/ \E c \in Calls : FetchAllClients(c)
    \/ \E c \in Calls : MatchAllClients(c)
    \/ \E c \in Calls : GenerateReports(c)
    \/ \E c \in Calls : SendEmailReport(c)
    \/ \E c \in Calls : RecordSummary(c)
    \/ \E c \in Calls : RaisePipelineError(c)

Spec == Init /\ [][Next]_vars

\* A step of call c other than an exception.
Step(c) ==
    \/ RejectRun(c) \/ AcceptRun(c) \/ LoadConfig(c)
    \/ FetchPageMore(c) \/ FetchNextPage(c) \/ FetchAllClients(c)
    \/ MatchAllClients(c) \/ GenerateReports(c) \/ SendEmailReport(c)
    \/ RecordSummary(c)

\* The event loop runs every call that can take a step, and every request
\* gets a response; nothing obliges a stage to raise, or an endpoint to
\* answer has_more: false.
FairSpec == Spec /\ \A c \in Calls : WF_vars(Step(c))

\* ---------------------------------------------------------------- SpecRun
\* One call, with every configuration of up to MaxClients clients.
InitRun ==
    /\ config_stores = ConfigStores(MaxClients)
    /\ is_running = FALSE
    /\ last_run = Unset
    /\ files = EmptyDict
    /\ pc = [c \in Calls |-> IF c = 1 THEN "idle" ELSE "unused"]
    /\ config = [c \in Calls |-> Unset]
    /\ clients_data = [c \in Calls |-> <<>>]
    /\ match_results = [c \in Calls |-> <<>>]
    /\ report_paths = [c \in Calls |-> Unset]
    /\ email_sent = [c \in Calls |-> FALSE]
    /\ ret = [c \in Calls |-> NotReturned]
    /\ history = [c \in Calls |-> NoHistory]
    /\ tasks = <<>>
    /\ completion = <<>>
    /\ now = 0
    /\ run_dir = [c \in Calls |-> Unset]
    /\ outbox = 0
    /\ MatchAtRest
    /\ FetchAtRest

NextRun ==
    \/ \E c \in Calls : AcceptRun(c)
    \/ \E c \in Calls : LoadConfig(c)
    \/ \E c \in Calls : FetchPageMore(c)
    \/ \E c \in Calls : FetchNextPage(c)
    \/ \E c \in Calls : FetchAllClients(c)
    \/ \E c \in Calls : MatchAllClients(c)
    \/ \E c \in Calls : GenerateReports(c)
    \/ \E c \in Calls : SendEmailReport(c)
    \/ \E c \in Calls : RecordSummary(c)
    \/ \E c \in Calls : RaisePipelineError(c)

SpecRun == InitRun /\ [][NextRun]_vars

\* The clients of call c whose fetch ended with an exception:
\* fetch_client_data sets error to str(e) only then.
FetchFailed(c) == {i \in DOMAIN clients_data[c] : clients_data[c][i].error # None}

\* C3: for any client whose fetch fails with any exception (whatever its
\* message, the empty one included), the pipeline yields a MatchResult with
\* error set, matched_count = 0 and unmatched_count = 0, the client is counted
\* in clients_with_errors of the combined report, and its CSV has no data row.
C3_FailedFetchIsReportedAsError ==
    \A c \in Calls :
        pc[c] \in {"notify", "summary"} =>
            /\ \A i \in FetchFailed(c) :
                  /\ match_results[c][i].error # None
                  /\ match_results[c][i].matched_count = 0
                  /\ match_results[c][i].unmatched_count = 0
                  /\ DataRows(files[report_paths[c][1].csv_files[i]]) = <<>>
            /\ report_paths[c][1].combined_json.overall_summary.clients_with_errors
                  = Cardinality(FetchFailed(c))

\* The calls inside the try block of run_matching_pipeline.
InFlight == {c \in Calls : pc[c] \in InTry}

\* C4: a call made while a run is Running returns the 'already running'
\* error and changes no shared run state: is_running stays true, last_run
\* and the report files are unchanged, and so is every local of the run in
\* progress, from which alone its summary is built.
C4_RejectedCallChangesNothing ==
    [][\A c \in Calls :
          (pc[c] = "idle" /\ is_running /\ pc'[c] # "idle") =>
              /\ pc'[c] = "rejected"
              /\ ret'[c] = Returned(AlreadyRunning)
              /\ is_running' = TRUE
              /\ last_run' = last_run
              /\ files' = files
              /\ \A d \in Calls \ {c} :
                    /\ pc'[d] = pc[d]
                    /\ config'[d] = config[d]
                    /\ clients_data'[d] = clients_data[d]
                    /\ match_results'[d] = match_results[d]
                    /\ report_paths'[d] = report_paths[d]
                    /\ email_sent'[d] = email_sent[d]
                    /\ ret'[d] = ret[d]]_vars

\* A call was rejected and the run it met has recorded its summary.
C4_Witness ==
    \E c, d \in Calls :
        /\ pc[c] = "rejected"
        /\ ret[c] = Returned(AlreadyRunning)
        /\ pc[d] = "done"
        /\ history[d].failed_at = None
        /\ ret[d] = last_run
        /\ ~is_running

\* C5: under any interleaving of concurrent calls at most one call is past
\* the is_running guard at a time, and a rejected call performs no stage.
C5_AtMostOnePastGuard ==
    /\ Cardinality(InFlight) <= 1
    /\ \A c \in Calls :
          pc[c] = "rejected" =>
              /\ history[c].stages = <<>>
              /\ ret[c] = Returned(AlreadyRunning)

\* One call is matching while another has been rejected.
C5_Witness ==
    \E c, d \in Calls : pc[c] = "match" /\ pc[d] = "rejected"

\* C6 as claimed: every run that passes the guard eventually sets
\* is_running back to false.
C6_RunEventuallyResetsFlag == is_running ~> ~is_running

\* C6 as amended: is_running is true exactly while an accepted call is
\* inside the try block, so every accepted call that exits, by a summary or
\* by an exception in any stage, leaves is_running false.
C6_FlagSetExactlyDuringRun ==
    /\ is_running <=> InFlight # {}
    /\ \A c \in Calls :
          (pc[c] = "done" /\ InFlight = {}) => ~is_running

\* A run gave up in the match stage, and another one completed with a
\* client whose fetch failed; the flag is down.
C6_Witness ==
    \E c, d \in Calls :
        /\ pc[c] = "done" /\ history[c].failed_at = "match"
        /\ pc[d] = "done" /\ history[d].failed_at = None
        /\ ret[d][1].totals.errors = 1
        /\ ~is_running

\* The stages a run has completed when it raises in `stage`.
StagesBefore(stage) ==
    CASE stage = "load" -> <<>>
      [] stage \in {"fetch", "paging"} -> <<"load">>
      [] stage = "match" -> <<"load", "fetch">>
      [] stage = "report" -> <<"load", "fetch", "match">>
      [] stage = "summary" -> <<"load", "fetch", "match", "report", "notify">>

\* C7: when an exception leaves a stage of an accepted run, the remaining
\* stages are not executed, the call returns an error dict, last_run keeps
\* the value it had before the run started, and is_running is false, so
\* that the next call passes the guard.
C7_ExceptionAbortsRun ==
    /\ [](\A c \in Calls :
            history[c].failed_at # None =>
                /\ pc[c] = "done"
                /\ ret[c] = Returned(PipelineError(PipelineErrorMessage))
                /\ history[c].stages = StagesBefore(history[c].failed_at)
                /\ InFlight = {} =>
                      \A d \in Calls : pc[d] = "idle" => ENABLED AcceptRun(d))
    /\ [][\A c \in Calls :
            (history[c].failed_at = None /\ history'[c].failed_at # None) =>
                /\ last_run' = history[c].last_run_before
                /\ is_running' = FALSE]_vars

\* A run raised in the report stage, and a later call is past the guard.
C7_Witness ==
    \E c, d \in Calls :
        /\ history[c].failed_at = "report"
        /\ pc[d] = "match"

\* =============================================================== SpecOrch
\* One call of run_matching_pipeline whose three orchestrator stages are
\* followed task by task.  fetch_all_clients gathers one coroutine per
\* client; match_all_clients and generate_reports map a function over the
\* clients on a thread pool.  The tasks of a stage complete in any order.

\* What the fetch of one client gives in this specification: a failure, no
\* records, or records.
OrchOutcomes == {GatherRaised(HttpErrorMessage)} \cup SampleFetched

\* The slots of n tasks that have not returned.
Pending(n) == [i \in 1..n |-> Unset]

\* The result v of task i put in the first free slot: results kept in the
\* order of completion.
TaskDoneInArrivalOrder(ts, i, v) ==
    LET free == {j \in DOMAIN ts : ts[j] = Unset}
        first == CHOOSE j \in free : \A k \in free : j <= k
    IN  [ts EXCEPT ![first] = Bound(v)]

\* asyncio.gather and executor.map keep the result of the i-th task at
\* position i.
TaskDone(ts, i, v) == [ts EXCEPT ![i] = Bound(v)]

AllDone(ts) == \A i \in DOMAIN ts : ts[i] # Unset

\* The results of the tasks, by position.
Results(ts) == [i \in DOMAIN ts |-> ts[i][1]]

\* fetch_all_clients: tasks = [fetch_client_data(client, settings) for ...]
CreateFetchTasks(c) ==
    /\ pc[c] = "fetch"
    /\ tasks' = Pending(Len(config[c][1].clients))
    /\ pc' = [pc EXCEPT ![c] = "fetching"]
    /\ UNCHANGED <<is_running, last_run, files, config, clients_data,
                   match_results, report_paths, email_sent, ret, history,
                   config_stores, completion, now, run_dir, outbox, match_vars, fetch_vars>>

\* str(e) of the CancelledError a cancelled task ends with.
CancelledMessage == "cancelled"

\* A failing client takes the clients still being fetched down with it.
FetchClientDoneFailFast(c, i) ==
    /\ pc[c] = "fetching"
    /\ i \in DOMAIN tasks
    /\ tasks[i] = Unset
    /\ \E outcome \in OrchOutcomes :
          tasks' = [j \in DOMAIN tasks |->
                      IF j = i
                      THEN Bound(fetch_client_data(config[c][1].clients[i].name, outcome))
                      ELSE IF outcome.raised /\ tasks[j] = Unset
                      THEN Bound(fetch_client_data(config[c][1].clients[j].name,
                                                   GatherRaised(CancelledMessage)))
                      ELSE tasks[j]]
    /\ completion' = Append(completion, <<"fetch", i>>)
    /\ UNCHANGED <<is_running, last_run, files, pc, config, clients_data,
                   match_results, report_paths, email_sent, ret, history,
                   config_stores, now, run_dir, outbox, match_vars, fetch_vars>>

\* The fetch_client_data of client i returns: its ClientData, with the data
\* or with the error of its own two streams.
FetchClientDone(c, i) ==
    /\ pc[c] = "fetching"
    /\ i \in DOMAIN tasks
    /\ tasks[i] = Unset
    /\ \E outcome \in OrchOutcomes :
          tasks' = TaskDone(tasks, i,
                      fetch_client_data(config[c][1].clients[i].name, outcome))
    /\ completion' = Append(completion, <<"fetch", i>>)
    /\ UNCHANGED <<is_running, last_run, files, pc, config, clients_data,
                   match_results, report_paths, email_sent, ret, history,
                   config_stores, now, run_dir, outbox, match_vars, fetch_vars>>

\* results = await asyncio.gather(*tasks); return list(results)
GatherClients(c) ==
    /\ pc[c] = "fetching"
    /\ AllDone(tasks)
    /\ clients_data' = [clients_data EXCEPT ![c] = Results(tasks)]
    /\ tasks' = <<>>
    /\ pc' = [pc EXCEPT ![c] = "match"]
    /\ history' = Completed(c, "fetch")
    /\ UNCHANGED <<is_running, last_run, files, config,
                   match_results, report_paths, email_sent, ret,
                   config_stores, completion, now, run_dir, outbox, match_vars, fetch_vars>>

\* match_all_clients: executor.map(match_client, clients_data) submits one
\* call per client.
SubmitMatch(c) ==
    /\ pc[c] = "match"
    /\ tasks' = Pending(Len(clients_data[c]))
    /\ pc' = [pc EXCEPT ![c] = "matching"]
    /\ UNCHANGED <<is_running, last_run, files, config, clients_data,
                   match_results, report_paths, email_sent, ret, history,
                   config_stores, completion, now, run_dir, outbox, match_vars, fetch_vars>>

\* A worker returns from match_client(clients_data[i]).
MatchWorkerDone(c, i) ==
    /\ pc[c] = "matching"
    /\ i \in DOMAIN tasks
    /\ tasks[i] = Unset
    /\ tasks' = TaskDone(tasks, i, match_client(clients_data[c][i]))
    /\ clients_data' = [clients_data EXCEPT ![c][i] = ClearedAfterMatch(@)]
    /\ completion' = Append(completion, <<"match", i>>)
    /\ UNCHANGED <<is_running, last_run, files, pc, config,
                   match_results, report_paths, email_sent, ret, history,
                   config_stores, now, run_dir, outbox, match_vars, fetch_vars>>

\* results = list(executor.map(...)); return results
MapMatchResults(c) ==
    /\ pc[c] = "matching"
    /\ AllDone(tasks)
    /\ match_results' = [match_results EXCEPT ![c] = Results(tasks)]
    /\ tasks' = <<>>
    /\ pc' = [pc EXCEPT ![c] = "report"]
    /\ history' = Completed(c, "match")
    /\ UNCHANGED <<is_running, last_run, files, config, clients_data,
                   report_paths, email_sent, ret,
                   config_stores, completion, now, run_dir, outbox, match_vars, fetch_vars>>

\* generate_reports: the run directory is made and
\* executor.map(process_client, results) submits one call per result.
SubmitProcessClient(c) ==
    /\ pc[c] = "report"
    /\ run_dir' = [run_dir EXCEPT ![c] = Bound(RunDir(now))]
    /\ tasks' = Pending(Len(match_results[c]))
    /\ pc' = [pc EXCEPT ![c] = "reporting"]
    /\ UNCHANGED <<is_running, last_run, files, config, clients_data,
                   match_results, report_paths, email_sent, ret, history,
                   config_stores, completion, now, outbox, match_vars, fetch_vars>>

\* What process_client(result) returns: csv_path, json_data.
process_client(result, dir) ==
    [csv_path |-> CsvPath(dir, result.client_name), json_data |-> _generate_json(result)]

\* A worker returns from process_client(results[i]): the CSV is written.
ProcessClientDone(c, i) ==
    /\ pc[c] = "reporting"
    /\ i \in DOMAIN tasks
    /\ tasks[i] = Unset
    /\ files' = WriteText(files, CsvPath(run_dir[c][1], match_results[c][i].client_name),
                          _generate_csv(match_results[c][i]))
    /\ tasks' = TaskDone(tasks, i, process_client(match_results[c][i], run_dir[c][1]))
    /\ completion' = Append(completion, <<"report", i>>)
    /\ UNCHANGED <<is_running, last_run, pc, config, clients_data,
                   match_results, report_paths, email_sent, ret, history,
                   config_stores, now, run_dir, outbox, match_vars, fetch_vars>>

\* The rest of generate_reports: csv_files and all_json are collected from
\* the outputs by position, the combined report is written and the paths
\* are returned.
ReportFrom(results, outputs, dir) ==
    [generate_reports(results, dir) EXCEPT
        !.csv_files = [i \in DOMAIN outputs |-> outputs[i].csv_path],
        !.combined_json.clients = [i \in DOMAIN outputs |-> outputs[i].json_data]]

\* The combined report written, and generate_reports returning, while
\* workers of process_client are still running.
WriteCombinedBeforeCsvs(c) ==
    /\ pc[c] = "reporting"
    /\ LET paths == generate_reports(match_results[c], run_dir[c][1])
       IN  /\ files' = WriteText(files, JsonPath(run_dir[c][1]), paths.combined_json)
           /\ report_paths' = [report_paths EXCEPT ![c] = Bound(paths)]
    /\ run_dir' = [run_dir EXCEPT ![c] = Unset]
    /\ tasks' = <<>>
    /\ pc' = [pc EXCEPT ![c] = "notify"]
    /\ history' = Completed(c, "report")
    /\ UNCHANGED <<is_running, last_run, config, clients_data,
                   match_results, email_sent, ret,
                   config_stores, completion, now, outbox, match_vars, fetch_vars>>

WriteCombined(c) ==
    /\ pc[c] = "reporting"
    /\ AllDone(tasks)
    /\ LET paths == ReportFrom(match_results[c], Results(tasks), run_dir[c][1])
       IN  /\ files' = WriteText(files, JsonPath(run_dir[c][1]), paths.combined_json)
           /\ report_paths' = [report_paths EXCEPT ![c] = Bound(paths)]
    /\ run_dir' = [run_dir EXCEPT ![c] = Unset]
    /\ tasks' = <<>>
    /\ pc' = [pc EXCEPT ![c] = "notify"]
    /\ history' = Completed(c, "report")
    /\ UNCHANGED <<is_running, last_run, config, clients_data,
                   match_results, email_sent, ret,
                   config_stores, completion, now, outbox, match_vars, fetch_vars>>

NextOrch ==
    \/ \E c \in Calls : AcceptRun(c)
    \/ \E c \in Calls : LoadConfig(c)
    \/ \E c \in Calls : CreateFetchTasks(c)
    \/ \E c \in Calls, i \in 1..MaxClients : FetchClientDone(c, i)
    \/ \E c \in Calls : GatherClients(c)
    \/ \E c \in Calls : SubmitMatch(c)
    \/ \E c \in Calls, i \in 1..MaxClients : MatchWorkerDone(c, i)
    \/ \E c \in Calls : MapMatchResults(c)
    \/ \E c \in Calls : SubmitProcessClient(c)
    \/ \E c \in Calls, i \in 1..MaxClients : ProcessClientDone(c, i)
    \/ \E c \in Calls : WriteCombined(c)
    \/ \E c \in Calls : SendEmailReport(c)
    \/ \E c \in Calls : RecordSummary(c)

\* One call; the configurations of up to MaxClients clients with the email
\* configured.
InitOrch ==
    /\ config_stores = {st \in ConfigStores(MaxClients) : st.email = EmailConfigured}
    /\ is_running = FALSE
    /\ last_run = Unset
    /\ files = EmptyDict
    /\ pc = [c \in Calls |-> IF c = 1 THEN "idle" ELSE "unused"]
    /\ config = [c \in Calls |-> Unset]
    /\ clients_data = [c \in Calls |-> <<>>]
    /\ match_results = [c \in Calls |-> <<>>]
    /\ report_paths = [c \in Calls |-> Unset]
    /\ email_sent = [c \in Calls |-> FALSE]
    /\ ret = [c \in Calls |-> NotReturned]
    /\ history = [c \in Calls |-> NoHistory]
    /\ tasks = <<>>
    /\ completion = <<>>
    /\ now = 0
    /\ run_dir = [c \in Calls |-> Unset]
    /\ outbox = 0
    /\ MatchAtRest
    /\ FetchAtRest

SpecOrch == InitOrch /\ [][NextOrch]_vars

\* What fetch_client_data can return for the client `name` fetched on its
\* own.
SoloFetch(name) == {fetch_client_data(name, o) : o \in PipelineOutcomes}

\* The tasks of `stage` that have completed, in the order they did.
CompletedIn(stage) == SelectSeq(completion, LAMBDA e : e[1] = stage)

\* C11: in fetch_all_clients the failure of any subset of clients does not
\* change the result of any other client: the task of a client that
\* completes, failing or not, leaves the result of every other client as it
\* was, every ClientData is one the client's own fetch gives when it is
\* fetched alone, and fetch_all_clients returns only after every client has
\* finished, with exactly one ClientData per enabled client of the
\* configuration file.
C11_FetchesAreIsolated ==
    /\ [](\A c \in Calls :
            /\ pc[c] = "fetching" =>
                  \A i \in DOMAIN tasks :
                      tasks[i] # Unset =>
                          tasks[i][1] \in SoloFetch(config[c][1].clients[i].name)
            /\ pc[c] = "match" =>
                  /\ Len(CompletedIn("fetch")) = Len(config[c][1].clients)
                  /\ \E store \in config_stores :
                        /\ config[c][1] = load_config(store)
                        /\ Len(clients_data[c])
                              = Cardinality({k \in DOMAIN store.clients : store.clients[k].enabled})
                  /\ \A i \in DOMAIN clients_data[c] :
                        clients_data[c][i] \in SoloFetch(config[c][1].clients[i].name))
    /\ [][\A c \in Calls :
            /\ (pc[c] = "fetching" /\ pc'[c] = "fetching") =>
                  \A j \in DOMAIN tasks : tasks[j] # Unset => tasks'[j] = tasks[j]
            /\ (pc[c] = "fetching" /\ pc'[c] # "fetching") =>
                  /\ AllDone(tasks)
                  /\ clients_data'[c] = Results(tasks)]_vars

\* Two clients: the second failed first, then the first returned its records.
C11_Witness ==
    \E c \in Calls :
        /\ pc[c] = "match"
        /\ CompletedIn("fetch") = <<(<<"fetch", 2>>), (<<"fetch", 1>>)>>
        /\ clients_data[c][2].error = HttpErrorMessage
        /\ clients_data[c][1].error = None
        /\ clients_data[c][1].checkouts # <<>>

\* The name of the i-th client of the configuration call c loaded.
ConfiguredName(c, i) == config[c][1].clients[i].name

\* C12: in each orchestrator stage (fetch_all_clients, match_all_clients and
\* the per-client part of generate_reports), for every order in which the
\* per-client tasks complete, the i-th element of the output belongs to the
\* i-th client of the input, so the results of all stages and the client
\* list of the run summary line up by position with the configured clients.
C12_OutputsKeepClientOrder ==
    /\ [](\A c \in Calls :
            /\ pc[c] = "fetching" =>
                  \A i \in DOMAIN tasks :
                      tasks[i] # Unset => tasks[i][1].client_name = ConfiguredName(c, i)
            /\ pc[c] = "matching" =>
                  \A i \in DOMAIN tasks :
                      tasks[i] # Unset => tasks[i][1].client_name = ConfiguredName(c, i)
            /\ pc[c] = "reporting" =>
                  \A i \in DOMAIN tasks :
                      tasks[i] # Unset =>
                          /\ tasks[i][1].json_data.client = ConfiguredName(c, i)
                          /\ tasks[i][1].csv_path = CsvPath(run_dir[c][1], ConfiguredName(c, i))
            /\ pc[c] \in {"match", "matching", "report", "reporting", "notify", "summary"} =>
                  /\ Len(clients_data[c]) = Len(config[c][1].clients)
                  /\ \A i \in DOMAIN clients_data[c] :
                        clients_data[c][i].client_name = ConfiguredName(c, i)
            /\ pc[c] \in {"report", "reporting", "notify", "summary"} =>
                  /\ Len(match_results[c]) = Len(config[c][1].clients)
                  /\ \A i \in DOMAIN match_results[c] :
                        match_results[c][i].client_name = ConfiguredName(c, i)
            /\ pc[c] \in {"notify", "summary"} =>
                  LET paths == report_paths[c][1]
                  IN  /\ Len(paths.csv_files) = Len(config[c][1].clients)
                      /\ Len(paths.combined_json.clients) = Len(config[c][1].clients)
                      /\ \A i \in DOMAIN paths.csv_files :
                            /\ paths.csv_files[i] = CsvPath(paths.dir, ConfiguredName(c, i))
                            /\ paths.combined_json.clients[i].client = ConfiguredName(c, i)
                            /\ paths.combined_json.clients[i].summary.matched
                                  = match_results[c][i].matched_count)
    /\ [][\A c \in Calls :
            (pc[c] = "summary" /\ pc'[c] = "done") =>
                /\ Len(ret'[c][1].clients) = Len(config[c][1].clients)
                /\ \A i \in DOMAIN ret'[c][1].clients :
                      /\ ret'[c][1].clients[i].name = ConfiguredName(c, i)
                      /\ ret'[c][1].clients[i].matched = match_results[c][i].matched_count]_vars

\* Two clients whose tasks completed second-before-first in all three
\* stages, and the run has returned its summary.
C12_Witness ==
    \E c \in Calls :
        /\ pc[c] = "done"
        /\ Len(ret[c][1].clients) = 2
        /\ ret[c][1].clients[1].matched # ret[c][1].clients[2].matched
        /\ completion = <<(<<"fetch", 2>>), (<<"fetch", 1>>), (<<"match", 2>>),
                          (<<"match", 1>>), (<<"report", 2>>), (<<"report", 1>>)>>

\* ------------------------------------------------- claims on match_client
\* The partition match_client computed: which checkouts are matched, which
\* are unmatched, and the figures derived from them.
Partition(result) ==
    [matched |-> [i \in DOMAIN result.matched |-> result.matched[i].checkout],
     unmatched |-> result.unmatched,
     matched_count |-> result.matched_count,
     unmatched_count |-> result.unmatched_count,
     match_rate |-> result.match_rate]

\* The ClientData of a fetch that returned the transactions txns in place of
\* those of client_data.
WithTransactions(client_data, txns) ==
    [client_data EXCEPT !.transactions = txns, !.transaction_count = Len(txns)]

\* The list t with its k-th and (k+1)-th records exchanged.
Swapped(t, k) ==
    [i \in DOMAIN t |-> IF i = k THEN t[k + 1] ELSE IF i = k + 1 THEN t[k] ELSE t[i]]

\* The transaction lists one rearrangement away from t: two neighbours
\* exchanged, one more transaction repeating the reference of the k-th, or
\* one of several transactions sharing a reference left out.  Every
\* permutation and every number of repetitions is a chain of these.
Rearranged(t) ==
    {Swapped(t, k) : k \in 1..(Len(t) - 1)}
    \cup {Append(t, Transaction(Len(t) + 1, t[k].paya_reference)) :
            k \in {j \in DOMAIN t : Truthy(t[j].paya_reference)}}
    \cup {SelectSeq(t, LAMBDA x : x # t[k]) :
            k \in {j \in DOMAIN t :
                     \E l \in DOMAIN t : l # j /\ t[l].paya_reference = t[j].paya_reference}}

\* C13: for a fixed list of checkouts, the partition computed by
\* match_client (which checkouts are matched, which are unmatched, and hence
\* matched_count, unmatched_count and match_rate) is the same for every
\* permutation of the transaction list and for every number of repetitions
\* of transactions sharing a reference.
C13_PartitionIgnoresOrderAndRepeats ==
    (Matched /\ m_given.error = None) =>
        \A txns \in Rearranged(m_given.transactions) :
            Partition(match_client(WithTransactions(m_given, txns)))
                = Partition(m_result[1])

\* Two transactions share a reference that a checkout carries, behind a
\* transaction of another reference; one checkout matched, one did not.
C13_Witness ==
    /\ Matched /\ m_given.error = None
    /\ Len(m_given.transactions) = 3
    /\ m_given.transactions[1].paya_reference = "pi_2"
    /\ m_given.transactions[2].paya_reference = "pi_1"
    /\ m_given.transactions[3].paya_reference = "pi_1"
    /\ m_result[1].matched_count = 1
    /\ m_result[1].unmatched_count = 1
    /\ m_result[1].matched[1].payment_intent = "pi_1"

\* The positions of the transactions of txns that carry the reference ref.
Carrying(txns, ref) == {j \in DOMAIN txns : txns[j].paya_reference = ref}

Intents(checkouts) == [i \in DOMAIN checkouts |-> checkouts[i].stripe_payment_intent_id]
References(txns) == [i \in DOMAIN txns |-> txns[i].paya_reference]

\* C15: match_client never fails with a division error: when no checkout
\* has a non-empty payment-intent identifier (an empty checkout list
\* included) match_rate is exactly 0; otherwise match_rate equals
\* matched_count / (matched_count + unmatched_count) * 100; intents
\* [pi_1, pi_2] with references [pi_1] give matched_count 1,
\* unmatched_count 1 and match_rate 50.
C15_MatchRateDefined ==
    (Matched /\ m_given.error = None) =>
        LET r == m_result[1]
        IN  /\ r.match_rate.den # 0
            /\ WithIntent(m_given.checkouts) = {} => r.match_rate.num = 0
            /\ WithIntent(m_given.checkouts) # {} =>
                  /\ r.matched_count + r.unmatched_count > 0
                  /\ r.match_rate.num * (r.matched_count + r.unmatched_count)
                        = r.matched_count * 100 * r.match_rate.den
            /\ (/\ Intents(m_given.checkouts) = <<"pi_1", "pi_2">>
                /\ References(m_given.transactions) = <<"pi_1">>) =>
                  /\ r.matched_count = 1
                  /\ r.unmatched_count = 1
                  /\ r.match_rate.num = 50 * r.match_rate.den

\* match_client returned for checkouts that all lack an identifier, the
\* transactions carrying references.
C15_Witness ==
    /\ Matched /\ m_given.error = None
    /\ Intents(m_given.checkouts) = <<"", None>>
    /\ References(m_given.transactions) = <<"pi_1">>
    /\ m_result[1].match_rate.num = 0

\* ------------------------------------------------- claims on the reports
\* The calls that ran to their summary.
Summarised == {c \in Calls : pc[c] = "done" /\ history[c].failed_at = None}

\* C16: any two runs of the pipeline, however close in time they execute
\* (two runs whose report stage falls within the same clock second
\* included), write their artifacts into two distinct run directories, so
\* that no file written by one run is overwritten by the other.
C16_RunsWriteDistinctDirectories ==
    \A c, d \in Summarised :
        c # d => ret[c][1].report_dir # ret[d][1].report_dir

\* The results of a list whose CSV path no other result of the list shares.
OwnCsv(results) ==
    {i \in DOMAIN results :
        \A j \in DOMAIN results :
            j # i => SafeName(results[j].client_name) # SafeName(results[i].client_name)}

EmailUnset(email_config) ==
    ~Truthy(email_config.sender_email) \/ email_config.admin_emails = <<>>

\* C18: send_email_report never raises and never turns a run into a
\* pipeline-level error: with the sender address or the recipient list unset
\* it sends nothing and returns false; when composing, connecting, STARTTLS,
\* login or sending fails, so that no message is accepted, it returns false;
\* in both cases the run goes on to record its RunSummary as last_run, with
\* email_sent = false and with all client results intact.
C18_NotifierNeverFailsRun ==
    /\ [](\A c \in Calls : history[c].failed_at # "notify")
    /\ [][\A c \in Calls :
            (pc[c] = "notify" /\ pc'[c] # "notify") =>
                /\ pc'[c] = "summary"
                /\ EmailUnset(config[c][1].email) =>
                      (email_sent'[c] = FALSE /\ outbox' = outbox)
                /\ outbox' = outbox => email_sent'[c] = FALSE
                /\ email_sent'[c] = TRUE => outbox' = outbox + 1
                /\ match_results'[c] = match_results[c]
                /\ report_paths'[c] = report_paths[c]]_vars
    /\ [][\A c \in Calls :
            (pc[c] = "summary" /\ pc'[c] = "done" /\ history'[c].failed_at = None) =>
                /\ last_run' = Bound(RunSummary(match_results[c], email_sent[c],
                                                report_paths[c][1]))
                /\ ret'[c] = last_run'
                /\ last_run'[1].email_sent = email_sent[c]]_vars

\* A run with the email configured whose message was not accepted has
\* recorded its summary, one checkout matched, with email_sent false.
C18_Witness ==
    \E c \in Calls :
        /\ pc[c] = "done"
        /\ history[c].failed_at = None
        /\ history[c].config[1].email = EmailConfigured
        /\ last_run = ret[c]
        /\ last_run[1].email_sent = FALSE
        /\ last_run[1].totals.matched = 1
        /\ outbox = 0

\* ---------------------------------------------- claims on the run summary
\* C19: the RunSummary of every run that completes without a pipeline-level
\* exception has exactly one entry per client of the configuration loaded at
\* the start of that run, in configured order, each entry holding either
\* that client's results or a non-null error; totals.matched and
\* totals.unmatched are the sums of the per-client counts and totals.errors
\* is the number of entries with an error.
C19_SummaryCoversEveryClient ==
    /\ [](\A c \in Summarised :
            LET summary == ret[c][1]
                configured == history[c].config[1].clients
            IN  /\ Len(summary.clients) = Len(configured)
                /\ \A i \in DOMAIN summary.clients :
                      /\ summary.clients[i].name = configured[i].name
                      /\ summary.clients[i].error # None =>
                            /\ summary.clients[i].matched = 0
                            /\ summary.clients[i].unmatched = 0
                            /\ summary.clients[i].unmatched_records = <<>>
                      /\ Len(summary.clients[i].unmatched_records)
                            = summary.clients[i].unmatched
                /\ summary.totals.matched
                      = SumSeq([i \in DOMAIN summary.clients |-> summary.clients[i].matched])
                /\ summary.totals.unmatched
                      = SumSeq([i \in DOMAIN summary.clients |-> summary.clients[i].unmatched])
                /\ summary.totals.errors
                      = Cardinality({i \in DOMAIN summary.clients :
                                        summary.clients[i].error # None}))
    /\ [][\A c \in Calls :
            (pc[c] = "summary" /\ pc'[c] = "done" /\ history'[c].failed_at = None) =>
                \A i \in DOMAIN match_results[c] :
                    LET entry == ret'[c][1].clients[i]
                        r == match_results[c][i]
                    IN  /\ entry.error = r.error
                        /\ entry.matched = r.matched_count
                        /\ entry.unmatched = r.unmatched_count
                        /\ entry.total_checkouts = r.total_checkouts
                        /\ entry.total_transactions = r.total_transactions]_vars

\* A run of two clients returned its summary: the first entry carries an
\* error, the second the results of a client with one match.
C19_Witness ==
    \E c \in Summarised :
        /\ Len(ret[c][1].clients) = 2
        /\ ret[c][1].clients[1].error = ApiErrorMessage
        /\ ret[c][1].clients[2].error = None
        /\ ret[c][1].clients[2].matched = 1
        /\ ret[c][1].totals.errors = 1

\* str.casefold(), on the letters the names are written with.
CaseFold(name) == Lower(name)

\* Lists of results whose client names are pairwise distinct when
\* case-folded.
DistinctCaseFolded(results) ==
    \A i, j \in DOMAIN results :
        i # j => CaseFold(results[i].client_name) # CaseFold(results[j].client_name)

\* C20: generate_reports produces one CSV per client: for the match results
\* of N clients with pairwise distinct case-folded names, after
\* generate_reports returns the run directory holds N distinct CSV files,
\* csv_files names N distinct paths, and each file contains exactly the
\* unmatched checkouts of its own client, under any interleaving of the
\* worker pool.
C20_OneCsvPerClient ==
    \A c \in Calls :
        (pc[c] \in {"notify", "summary"} /\ DistinctCaseFolded(match_results[c])) =>
            LET paths == report_paths[c][1]
                results == match_results[c]
            IN  /\ Len(paths.csv_files) = Len(results)
                /\ \A i, j \in DOMAIN paths.csv_files :
                      i # j => paths.csv_files[i] # paths.csv_files[j]
                /\ Cardinality({p \in DOMAIN files :
                                  p.dir = paths.dir /\ p # paths.json_path}) = Len(results)
                /\ \A i \in DOMAIN results :
                      files[paths.csv_files[i]] = _generate_csv(results[i])

\* ------------------------------------------------ claims on the stage order
\* The stages of a run, in the order of main.py.
StageOrder == <<"load", "fetch", "match", "report", "notify", "summary">>

\* The position of a per-client stage among the three orchestrator stages.
StageRank(stage) ==
    CASE stage = "fetch" -> 1
      [] stage = "match" -> 2
      [] stage = "report" -> 3

\* The files of the directory dir that are per-client CSVs.
CsvFilesIn(dir) == {p \in DOMAIN files : p.dir = dir /\ p # JsonPath(dir)}

\* C21: within one run the stages execute in the strict order Fetch, Match,
\* Report, Notify with no overlap: matching of any client starts only after
\* the fetch of every client has completed, report generation starts only
\* after the match of every client has completed, the combined JSON document
\* is written only after every per-client CSV has been written, and the
\* notifier runs only after the combined document is written.
C21_StagesRunInStrictOrder ==
    \A c \in Calls :
        history[c].config # Unset =>
            LET n == Len(history[c].config[1].clients) IN
            /\ history[c].stages = SubSeq(StageOrder, 1, Len(history[c].stages))
            /\ \A k, l \in DOMAIN completion :
                  k < l => StageRank(completion[k][1]) <= StageRank(completion[l][1])
            /\ (pc[c] = "matching" \/ CompletedIn("match") # <<>>) =>
                  Len(CompletedIn("fetch")) = n
            /\ (pc[c] = "reporting" \/ CompletedIn("report") # <<>>) =>
                  Len(CompletedIn("match")) = n
            /\ \A p \in DOMAIN files :
                  p = JsonPath(p.dir) =>
                      /\ Len(CompletedIn("report")) = n
                      /\ pc[c] \in {"notify", "summary", "done"}
                      /\ \A i \in 1..n :
                            CsvPath(p.dir, history[c].config[1].clients[i].name)
                                \in CsvFilesIn(p.dir)
            /\ (pc[c] \in {"notify", "summary"} \/ outbox > 0) =>
                  /\ report_paths[c] # Unset \/ pc[c] = "done"
                  /\ \E p \in DOMAIN files : p = JsonPath(p.dir)

\* Two clients: both fetched, both matched, both CSVs written, the second
\* client first each time, then the combined report, and the message sent.
C21_Witness ==
    \E c \in Calls :
        /\ pc[c] = "summary"
        /\ outbox = 1
        /\ Len(match_results[c]) = 2
        /\ Cardinality(CsvFilesIn(report_paths[c][1].dir)) = 2
        /\ completion = <<(<<"fetch", 2>>), (<<"fetch", 1>>), (<<"match", 2>>),
                          (<<"match", 1>>), (<<"report", 2>>), (<<"report", 1>>)>>

\* ------------------------------------- claims on the working set of matches
\* C22: in match_client each non-empty transaction reference is consumed by
\* at most one checkout: once a checkout has matched a reference, that
\* reference is removed from the working set, so for any input the number
\* of matched records is at most the number of distinct non-empty
\* paya_reference values and no two matched records carry the same
\* payment_intent.
C22_ReferenceConsumedOnce ==
    (Matched /\ m_given.error = None) =>
        LET r == m_result[1]
        IN  /\ r.matched_count <= Cardinality(paya_ref_set(m_given.transactions))
            /\ Len(r.matched) = r.matched_count
            /\ \A i, j \in DOMAIN r.matched :
                  r.matched[i].payment_intent = r.matched[j].payment_intent => i = j
            /\ \A i \in DOMAIN r.matched :
                  r.matched[i].payment_intent \in paya_ref_set(m_given.transactions)

\* Three checkouts carry the one reference that two transactions offer: one
\* record matched.
C22_Witness ==
    /\ Matched /\ m_given.error = None
    /\ Intents(m_given.checkouts) = <<"pi_1", "pi_1", "pi_1">>
    /\ References(m_given.transactions) = <<"pi_1", "pi_1">>
    /\ m_result[1].matched_count = 1

\* The pairs of different checkouts that carry the same non-empty
\* payment-intent value for which a transaction exists.
RepeatedIntent(client_data) ==
    {<<i, j>> \in (DOMAIN client_data.checkouts) \X (DOMAIN client_data.checkouts) :
        /\ i < j
        /\ Truthy(client_data.checkouts[i].stripe_payment_intent_id)
        /\ client_data.checkouts[i].stripe_payment_intent_id
              = client_data.checkouts[j].stripe_payment_intent_id
        /\ Carrying(client_data.transactions,
                    client_data.checkouts[i].stripe_payment_intent_id) # {}}

\* The checkouts of the matched records of a result.
MatchedCheckouts(result) ==
    {result.matched[k].checkout : k \in DOMAIN result.matched}

\* The checkouts of the unmatched list of a result.
UnmatchedCheckouts(result) ==
    {result.unmatched[k] : k \in DOMAIN result.unmatched}

\* C23 as claimed: when two different checkouts of one client carry the same
\* non-empty payment-intent value and a transaction with that reference
\* exists, the second checkout still matches: both checkouts are emitted as
\* matched records and neither appears in the unmatched list.
C23_BothDuplicatesMatched ==
    (Matched /\ m_given.error = None) =>
        \A d \in RepeatedIntent(m_given) :
            /\ m_given.checkouts[d[1]] \in MatchedCheckouts(m_result[1])
            /\ m_given.checkouts[d[2]] \in MatchedCheckouts(m_result[1])
            /\ m_given.checkouts[d[1]] \notin UnmatchedCheckouts(m_result[1])
            /\ m_given.checkouts[d[2]] \notin UnmatchedCheckouts(m_result[1])

\* C23 as amended: when several checkouts of one client carry the same
\* non-empty payment-intent value and a transaction with that reference
\* exists, only the first of them in the checkout list is emitted as a
\* matched record; every later one appears in the unmatched list and in no
\* matched record.
C23_OnlyFirstDuplicateMatched ==
    (Matched /\ m_given.error = None) =>
        \A d \in RepeatedIntent(m_given) :
            /\ m_given.checkouts[d[2]] \in UnmatchedCheckouts(m_result[1])
            /\ m_given.checkouts[d[2]] \notin MatchedCheckouts(m_result[1])
            /\ (\A k \in 1..(d[1] - 1) : <<k, d[1]>> \notin RepeatedIntent(m_given)) =>
                  /\ m_given.checkouts[d[1]] \in MatchedCheckouts(m_result[1])
                  /\ m_given.checkouts[d[1]] \notin UnmatchedCheckouts(m_result[1])

\* Two checkouts carry the reference of the one transaction: the first is
\* the matched record, the second is the unmatched list.
C23_Witness ==
    /\ Matched /\ m_given.error = None
    /\ Intents(m_given.checkouts) = <<"pi_1", "pi_1">>
    /\ References(m_given.transactions) = <<"pi_1">>
    /\ m_result[1].matched_count = 1
    /\ m_result[1].matched[1].checkout = m_given.checkouts[1]
    /\ m_result[1].unmatched = <<m_given.checkouts[2]>>

\* ================================================================ SpecApi
\* POST /api/run: request c is answered by trigger_run, which schedules call
\* c of run_matching_pipeline as a background task.
\* The two answers of trigger_run.
Started == "started"
Conflict == "Already running"

InitApi ==
    /\ config_stores = GuardStores
    /\ is_running = FALSE
    /\ last_run = Unset
    /\ files = EmptyDict
    /\ pc = [c \in Calls |-> "request"]
    /\ config = [c \in Calls |-> Unset]
    /\ clients_data = [c \in Calls |-> <<>>]
    /\ match_results = [c \in Calls |-> <<>>]
    /\ report_paths = [c \in Calls |-> Unset]
    /\ email_sent = [c \in Calls |-> FALSE]
    /\ ret = [c \in Calls |-> NotReturned]
    /\ history = [c \in Calls |-> NoHistory]
    /\ tasks = <<>>
    /\ completion = <<>>
    /\ now = 0
    /\ run_dir = [c \in Calls |-> Unset]
    /\ outbox = 0
    /\ MatchAtRest
    /\ FetchAtRest

\* trigger_run, `if is_running: return JSONResponse(..., status_code=409)`.
TriggerRunConflict(c) ==
    /\ pc[c] = "request"
    /\ is_running
    /\ pc' = [pc EXCEPT ![c] = "refused"]
    /\ history' = [history EXCEPT ![c].answer = Conflict]
    /\ UNCHANGED <<is_running, last_run, files, config, clients_data,
                   match_results, report_paths, email_sent, ret,
                   config_stores, tasks, completion, now, run_dir, outbox,
                   match_vars, fetch_vars>>

\* trigger_run found is_running false: it adds the background task and
\* awaits asyncio.sleep(0.1).  It does not set is_running.
TriggerRunSchedule(c) ==
    /\ pc[c] = "request"
    /\ ~is_running
    /\ pc' = [pc EXCEPT ![c] = "sleeping"]
    /\ UNCHANGED <<is_running, last_run, files, config, clients_data,
                   match_results, report_paths, email_sent, ret, history,
                   config_stores, tasks, completion, now, run_dir, outbox,
                   match_vars, fetch_vars>>

\* The sleep is over: trigger_run returns {"status": "started"}, and with
\* the response sent the background task starts call c of
\* run_matching_pipeline, which has yet to reach its guard.
TriggerRunStarted(c) ==
    /\ pc[c] = "sleeping"
    /\ pc' = [pc EXCEPT ![c] = "idle"]
    /\ history' = [history EXCEPT ![c].answer = Started]
    /\ UNCHANGED <<is_running, last_run, files, config, clients_data,
                   match_results, report_paths, email_sent, ret,
                   config_stores, tasks, completion, now, run_dir, outbox,
                   match_vars, fetch_vars>>

NextApi ==
    \/ \E c \in Calls : TriggerRunConflict(c)
    \/ \E c \in Calls : TriggerRunSchedule(c)
    \/ \E c \in Calls : TriggerRunStarted(c)
    \/ \E c \in Calls : RejectRun(c)
    \/ \E c \in Calls : AcceptRun(c)
    \/ \E c \in Calls : LoadConfig(c)
    \/ \E c \in Calls : FetchPageMore(c)
    \/ \E c \in Calls : FetchNextPage(c)
    \/ \E c \in Calls : FetchAllClients(c)
    \/ \E c \in Calls : MatchAllClients(c)
    \/ \E c \in Calls : GenerateReports(c)
    \/ \E c \in Calls : SendEmailReport(c)
    \/ \E c \in Calls : RecordSummary(c)
    \/ \E c \in Calls : RaisePipelineError(c)

SpecApi == InitApi /\ [][NextApi]_vars

\* The call a request scheduled was turned away by the guard of
\* run_matching_pipeline.
RejectedAsRunning(c) == ret[c] = Returned(AlreadyRunning)

\* C24: under any interleaving of concurrent POST /api/run requests, every
\* trigger_run request that answers {status: started} causes one full
\* pipeline execution: the run_matching_pipeline call it schedules passes
\* the is_running guard and is not rejected as already running.
C24_StartedRunPassesGuard ==
    \A c \in Calls :
        history[c].answer = Started => ~RejectedAsRunning(c)


=============================================================================
